---- MODULE Spec2Model ----
(***************************************************************************)
(* express-jobly: the SQL builders (helpers/sql.js, Job.sqlForFiltering,   *)
(* Company.sqlForFiltering) and the model methods that use them.           *)
(*                                                                         *)
(* JavaScript values are tagged records; a JavaScript object is the        *)
(* sequence of its own [k, v] entries in insertion order (the order of     *)
(* Object.keys / Object.values).  SQL text is a sequence of string tokens; *)
(* a placeholder $N is the single token "$N".  Render concatenates the     *)
(* tokens into the string the code builds.                                 *)
(***************************************************************************)
EXTENDS Integers, Sequences, FiniteSets, TLC

VARIABLES
    dataToUpdate,   \* argument object of sqlForPartialUpdate / update
    jsToSql,        \* column-name map handed to sqlForPartialUpdate
    dataToFilter,   \* the caller's filter object, as it is now
    filterArg,      \* the caller's filter object as it was when last passed
    calls,          \* builder calls made so far on the caller's filter object
    ret,            \* outcome of the last operation
    queries,        \* statements the last operation sent to db.query
    jobs,           \* rows of table jobs
    companies,      \* rows of table companies
    jobSeq,         \* last value of the SERIAL sequence of jobs.id
    req,            \* the request of the last operation, {} when it was a direct call
    locals,         \* res.locals of that request
    nexts,          \* calls of next() made by the last middleware
    called,         \* model methods the last route handler called
    args            \* arguments of the last operation when it was a direct call

vars == <<dataToUpdate, jsToSql, dataToFilter, filterArg, calls, ret, queries, jobs, companies,
          jobSeq, req, locals, nexts, called, args>>

(***************************** bounds **************************************)
\* largest number of own keys of an argument object
MaxKeys == 3
\* largest number of builder calls made on one filter object
MaxCalls == 2
\* largest number of jobs inserted in one run
MaxCreates == 1

(*************************** JavaScript values *****************************)
Undefined == [t |-> "undefined"]
Null == [t |-> "null"]
Str(s) == [t |-> "str", s |-> s]
Num(n) == [t |-> "num", n |-> n]
Bool(b) == [t |-> "bool", b |-> b]
Obj(o) == [t |-> "obj", o |-> o]

\* ToBoolean, as used by ! and ||
Truthy(v) ==
    CASE v.t = "undefined" -> FALSE
      [] v.t = "null" -> FALSE
      [] v.t = "str" -> v.s # ""
      [] v.t = "num" -> v.n # 0
      [] v.t = "bool" -> v.b
      [] OTHER -> TRUE

\* ToString, as used by a template literal `${v}`
JsToString(v) ==
    CASE v.t = "undefined" -> "undefined"
      [] v.t = "null" -> "null"
      [] v.t = "str" -> v.s
      [] v.t = "num" -> ToString(v.n)
      [] v.t = "bool" -> (IF v.b THEN "true" ELSE "false")
      [] OTHER -> "[object Object]"

\* strict equality v === true / v === false
IsTrue(v) == v.t = "bool" /\ v.b
IsFalse(v) == v.t = "bool" /\ ~v.b

(*************************** JavaScript objects ****************************)
EmptyObj == << >>
\* (record fields are written in the order TLC keeps them in, so that a record
\* is built as it is stored)
Entry(k, v) == [v |-> v, k |-> k]

\* Object.keys(o)
ObjKeys(o) == [i \in 1..Len(o) |-> o[i].k]

\* Object.values(o)
ObjValues(o) == [i \in 1..Len(o) |-> o[i].v]

\* key in o (own property)
ObjHas(o, k) == \E i \in 1..Len(o) : o[i].k = k

\* o[k]
ObjGet(o, k) ==
    IF ObjHas(o, k) THEN o[CHOOSE i \in 1..Len(o) : o[i].k = k].v ELSE Undefined

\* o[k] = v : an existing key keeps its position, a new key goes last
ObjSet(o, k, v) ==
    IF ObjHas(o, k)
    THEN [i \in 1..Len(o) |-> IF o[i].k = k THEN Entry(k, v) ELSE o[i]]
    ELSE Append(o, Entry(k, v))

\* delete o[k]
ObjDelete(o, k) == SelectSeq(o, LAMBDA e : e.k # k)

(******************************* SQL text **********************************)
\* `$${n}`
Ph(n) == "$" \o ToString(n)

\* placeholder tokens the builders can emit within the bounds
MaxPh == MaxKeys + 2
IsPh(tok) == \E n \in 1..MaxPh : tok = Ph(n)
PhNum(tok) == CHOOSE n \in 1..MaxPh : tok = Ph(n)

\* the placeholder numbers of a text, in textual order
Placeholders(text) ==
    LET phs == SelectSeq(text, IsPh)
    IN  [i \in 1..Len(phs) |-> PhNum(phs[i])]

\* a piece of text as an array element
Text(toks) == [t |-> "text", toks |-> toks]

\* Array.prototype.join over an array of texts; an undefined or null element
\* is joined as the empty string
ElemText(e) == IF e.t = "text" THEN e.toks ELSE << >>
RECURSIVE Join(_, _)
Join(parts, sep) ==
    IF Len(parts) = 0 THEN << >>
    ELSE IF Len(parts) = 1 THEN ElemText(parts[1])
    ELSE ElemText(parts[1]) \o <<sep>> \o Join(Tail(parts), sep)

\* the string a token sequence stands for
RECURSIVE Render(_)
Render(text) == IF Len(text) = 0 THEN "" ELSE Head(text) \o Render(Tail(text))

(**************************** helpers/sql.js *******************************)
\* variant: the column-name map is never consulted
ColumnNameKeyOnly(map, colName) == colName

\* jsToSql[colName] || colName
ColumnName(map, colName) ==
    IF Truthy(ObjGet(map, colName)) THEN JsToString(ObjGet(map, colName)) ELSE colName

\* variant: the placeholder is numbered idx instead of idx + 1
SetFragmentFromZero(map, colName, idx) ==
    Text(<<"\"", ColumnName(map, colName), "\"", "=", Ph(idx)>>)

\* `"${jsToSql[colName] || colName}"=$${idx + 1}`  (idx is 0-based)
SetFragment(map, colName, idx) ==
    Text(<<"\"", ColumnName(map, colName), "\"", "=", Ph(idx + 1)>>)

NoRet == [text |-> << >>, op |-> "none", err |-> "none", values |-> << >>, rows |-> << >>]
\* an operation that ended with err ("none": it returned) and returns no data
Outcome(op, err) == [text |-> << >>, op |-> op, err |-> err, values |-> << >>, rows |-> << >>]
Threw(op, e) == [text |-> << >>, op |-> op, err |-> e, values |-> << >>, rows |-> << >>]
Returned(op, text, values) ==
    [text |-> text, op |-> op, err |-> "none", values |-> values, rows |-> << >>]

\* variant: the empty-data check is missing
sqlForPartialUpdateNoCheck(data, map) ==
    LET keys == ObjKeys(data)
        cols == [i \in 1..Len(keys) |-> SetFragment(map, keys[i], i - 1)]
    IN  Returned("sqlForPartialUpdate", Join(cols, ", "), ObjValues(data))

sqlForPartialUpdate(data, map) ==
    LET keys == ObjKeys(data)
        cols == [i \in 1..Len(keys) |-> SetFragment(map, keys[i], i - 1)]
    IN  IF Len(keys) = 0
        THEN Threw("sqlForPartialUpdate", "BadRequestError")
        ELSE Returned("sqlForPartialUpdate", Join(cols, ", "), ObjValues(data))


(******************************** the store ********************************)
\* rows as the tests' fixtures set them up
JobsFixture ==
    { [id |-> Num(1), title |-> Str("j1"), salary |-> Num(100000), equity |-> Str("0.5"),
       companyHandle |-> Str("c1")],
      [id |-> Num(2), title |-> Str("j2"), salary |-> Num(200000), equity |-> Str("0.7"),
       companyHandle |-> Str("c2")],
      [id |-> Num(3), title |-> Str("j3"), salary |-> Num(300000), equity |-> Str("0"),
       companyHandle |-> Str("c1")] }

\* jobs.id is SERIAL: the fixture rows took 1, 2, 3
LastJobId == 3

CompaniesFixture ==
    { [handle |-> Str("c1"), name |-> Str("C1"), description |-> Str("Desc1"),
       numEmployees |-> Num(1), logoUrl |-> Str("http://c1.img")],
      [handle |-> Str("c2"), name |-> Str("C2"), description |-> Str("Desc2"),
       numEmployees |-> Num(2), logoUrl |-> Null] }

\* the texts the model's inputs and rows are made of, in collation order, and
\* their characters in lower case (ILIKE ignores case)
TextOrder == <<"2", "C1", "C2", "j1", "j2", "j3", "net", "New">>
KnownTexts == {TextOrder[i] : i \in 1..Len(TextOrder)}
LowerChars(s) ==
    CASE s = "2" -> <<"2">>
      [] s = "C1" -> <<"c", "1">>
      [] s = "C2" -> <<"c", "2">>
      [] s = "j1" -> <<"j", "1">>
      [] s = "j2" -> <<"j", "2">>
      [] s = "j3" -> <<"j", "3">>
      [] s = "net" -> <<"n", "e", "t">>
      [] s = "New" -> <<"n", "e", "w">>
TextRank(s) == IF s \in KnownTexts THEN CHOOSE i \in 1..Len(TextOrder) : TextOrder[i] = s ELSE 0

\* integers a text parameter can spell
KnownInts == {0, 1, 2, 3, 4, 9, 10, 20, 100, 400, 999, 100000, 200000, 300000, 500000}
PgIsInt(v) == v.t = "num" \/ (v.t = "str" /\ \E n \in KnownInts : v.s = ToString(n))
PgInt(v) == IF v.t = "num" THEN v.n ELSE CHOOSE n \in KnownInts : v.s = ToString(n)

\* s wrapped n times in %...%
RECURSIVE WrapTimes(_, _)
WrapTimes(s, n) == IF n = 0 THEN s ELSE "%" \o WrapTimes(s, n - 1) \o "%"

Contains(hay, needle) ==
    \E i \in 0..(Len(hay) - Len(needle)) : SubSeq(hay, i + 1, i + Len(needle)) = needle

\* text ILIKE pattern, for the patterns the builders produce
PgILike(text, pattern) ==
    /\ text.t = "str" /\ text.s \in KnownTexts
    /\ \E s \in KnownTexts, n \in 0..(MaxCalls + 1) :
          /\ pattern = WrapTimes(s, n)
          /\ IF n = 0 THEN LowerChars(text.s) = LowerChars(s)
             ELSE Contains(LowerChars(text.s), LowerChars(s))

\* the pieces of a text between occurrences of the token sep
RECURSIVE Split(_, _)
Split(text, sep) ==
    IF \E i \in 1..Len(text) : text[i] = sep
    THEN LET i == CHOOSE j \in 1..Len(text) :
                    text[j] = sep /\ \A k \in 1..(j - 1) : text[k] # sep
         IN  <<SubSeq(text, 1, i - 1)>> \o Split(SubSeq(text, i + 1, Len(text)), sep)
    ELSE <<text>>

\* a statement binds exactly the parameters $1..$n its text refers to
ParamsFit(text, params) ==
    {Placeholders(text)[i] : i \in 1..Len(Placeholders(text))} = 1..Len(params)

\* rows as a sequence ordered by rank, a function from rows to integer sort keys
RECURSIVE SortRows(_, _)
SortRows(rows, rank) ==
    IF rows = {} THEN << >>
    ELSE LET r == CHOOSE x \in rows : \A y \in rows : rank[x] <= rank[y]
         IN  <<r>> \o SortRows(rows \ {r}, rank)

\* ORDER BY id for jobs, ORDER BY name for companies
RowRank(tbl, r) == IF tbl = "jobs" THEN r.id.n ELSE TextRank(r.name.s)

\* what a column holds after it is assigned v (NUMERIC columns read back as text)
PgStore(col, v) == IF col = "equity" /\ v.t = "num" THEN Str(ToString(v.n)) ELSE v

\* the columns of a table and the name each is read back under
Columns(tbl) ==
    IF tbl = "jobs" THEN {"id", "title", "salary", "equity", "company_handle"}
    ELSE {"handle", "name", "description", "num_employees", "logo_url"}

Field(col) ==
    IF col = "company_handle" THEN "companyHandle"
    ELSE IF col = "num_employees" THEN "numEmployees"
    ELSE IF col = "logo_url" THEN "logoUrl" ELSE col

\* WHERE id = $n compares integers, WHERE handle = $n compares texts
KeyField(tbl) == IF tbl = "jobs" THEN "id" ELSE "handle"
KeyOk(tbl, key) == IF tbl = "jobs" THEN PgIsInt(key) ELSE key.t = "str"
SameKey(tbl, a, b) == IF tbl = "jobs" THEN PgInt(a) = PgInt(b) ELSE a.s = b.s

\* SET assignments: each piece of the SET text must read "column"=$n
IsAssignment(piece, tbl) ==
    /\ Len(piece) = 5
    /\ piece[1] = "\"" /\ piece[3] = "\"" /\ piece[4] = "="
    /\ piece[2] \in Columns(tbl)
    /\ IsPh(piece[5])

DbOk(rows, table) == [err |-> "none", rows |-> rows, table |-> table]
DbError(table) == [err |-> "DatabaseError", rows |-> << >>, table |-> table]

\* UPDATE <table> SET <set> WHERE <key column> = <keyPh> RETURNING ...
ExecUpdate(stmt, table) ==
    LET pieces == Split(stmt.set, ", ")
        text == stmt.set \o <<stmt.keyPh>>
        key == stmt.params[PhNum(stmt.keyPh)]
        newVal(row, f) ==
            IF \E i \in 1..Len(pieces) : Field(pieces[i][2]) = f
            THEN LET i == CHOOSE j \in 1..Len(pieces) : Field(pieces[j][2]) = f
                 IN  PgStore(pieces[i][2], stmt.params[PhNum(pieces[i][5])])
            ELSE row[f]
        upd(row) == [f \in DOMAIN row |-> newVal(row, f)]
        hit == {r \in table : SameKey(stmt.table, r[KeyField(stmt.table)], key)}
        new == {upd(r) : r \in hit}
    IN  IF /\ \A i \in 1..Len(pieces) : IsAssignment(pieces[i], stmt.table)
           /\ ParamsFit(text, stmt.params)
           /\ KeyOk(stmt.table, key)
        THEN DbOk(SortRows(new, [r \in new |-> RowRank(stmt.table, r)]),
                  (table \ hit) \cup new)
        ELSE DbError(table)

\* the comparisons the two models put into a WHERE clause
Comparisons ==
    { [tbl |-> "jobs", lhs |-> "title ILIKE ", kind |-> "ilike", field |-> "title"],
      [tbl |-> "jobs", lhs |-> "salary >= ", kind |-> "ge", field |-> "salary"],
      [tbl |-> "companies", lhs |-> "name ILIKE ", kind |-> "ilike", field |-> "name"],
      [tbl |-> "companies", lhs |-> "num_employees >= ", kind |-> "ge",
       field |-> "numEmployees"],
      [tbl |-> "companies", lhs |-> "num_employees <= ", kind |-> "le",
       field |-> "numEmployees"] }

EquityCond == <<"equity IS NOT NULL AND equity != 0">>

\* one condition of WHERE ... AND ... is a comparison with a parameter or the
\* equity test
CondOk(c, tbl) ==
    \/ /\ Len(c) = 2
       /\ \E k \in Comparisons : k.tbl = tbl /\ k.lhs = c[1]
       /\ IsPh(c[2])
    \/ tbl = "jobs" /\ c = EquityCond

Comparison(c, tbl) == CHOOSE k \in Comparisons : k.tbl = tbl /\ k.lhs = c[1]

\* the parameter of a numeric comparison must spell an integer
CondTyped(c, tbl, params) ==
    (c # EquityCond /\ Comparison(c, tbl).kind \in {"ge", "le"})
        => PgIsInt(params[PhNum(c[2])])

CondHolds(c, tbl, params, r) ==
    IF c = EquityCond
    THEN r.equity.t # "null" /\ r.equity.s \notin {"0", "0.0"}
    ELSE LET k == Comparison(c, tbl)
             p == params[PhNum(c[2])]
             v == r[k.field]
         IN  IF k.kind = "ilike" THEN PgILike(v, JsToString(p))
             ELSE IF k.kind = "ge" THEN v.t # "null" /\ v.n >= PgInt(p)
             ELSE v.t # "null" /\ v.n <= PgInt(p)

\* SELECT ... FROM <table><where> ORDER BY ...
ExecSelect(stmt, table) ==
    LET conds == IF stmt.where = << >> THEN << >> ELSE Split(Tail(stmt.where), " AND ")
        wellFormed ==
            /\ stmt.where # << >> => Head(stmt.where) = "\nWHERE "
            /\ \A i \in 1..Len(conds) : CondOk(conds[i], stmt.table)
            /\ ParamsFit(stmt.where, stmt.params)
        sat(r) == \A i \in 1..Len(conds) : CondHolds(conds[i], stmt.table, stmt.params, r)
        found == {r \in table : sat(r)}
    IN  IF wellFormed /\ \A i \in 1..Len(conds) : CondTyped(conds[i], stmt.table, stmt.params)
        THEN DbOk(SortRows(found, [r \in found |-> RowRank(stmt.table, r)]), table)
        ELSE DbError(table)


\* a parameter as the store receives it: undefined is sent as NULL
PgParam(v) == IF v.t = "undefined" THEN Null ELSE v

\* SELECT ... FROM <table> WHERE <col> = <keyPh>; id is an integer column,
\* the others compared here are text; nothing equals NULL
ExecSelectBy(stmt, table) ==
    LET key == PgParam(stmt.params[PhNum(stmt.keyPh)])
        isInt == stmt.col = "id"
        found == IF key = Null THEN {}
                 ELSE IF isInt THEN {r \in table : r.id.n = PgInt(key)}
                 ELSE {r \in table : r[Field(stmt.col)] = Str(JsToString(key))}
    IN  IF /\ stmt.col \in Columns(stmt.table)
           /\ ParamsFit(<<stmt.keyPh>>, stmt.params)
           /\ key = Null \/ (IF isInt THEN PgIsInt(key) ELSE key.t \in {"str", "num"})
        THEN DbOk(SortRows(found, [r \in found |-> RowRank(stmt.table, r)]), table)
        ELSE DbError(table)

\* DELETE FROM <table> WHERE <key column> = <keyPh> RETURNING <key column>
ExecDelete(stmt, table) ==
    LET key == PgParam(stmt.params[PhNum(stmt.keyPh)])
        k == KeyField(stmt.table)
        hit == IF key = Null THEN {}
               ELSE {r \in table : SameKey(stmt.table, r[k], key)}
        gone == SortRows(hit, [r \in hit |-> RowRank(stmt.table, r)])
    IN  IF /\ ParamsFit(<<stmt.keyPh>>, stmt.params)
           /\ key = Null \/ KeyOk(stmt.table, key)
        THEN DbOk([i \in 1..Len(gone) |-> [f \in {k} |-> gone[i][f]]], table \ hit)
        ELSE DbError(table)

\* INSERT INTO jobs (title, salary, equity, company_handle)
\* VALUES ($1, $2, $3, $4) RETURNING ...; id is the next value of the sequence
ExecInsertJob(stmt, table, seq) ==
    LET v(i) == PgParam(stmt.params[i])
        row == [id |-> Num(seq + 1), title |-> v(1), salary |-> v(2),
                equity |-> PgStore("equity", v(3)), companyHandle |-> v(4)]
    IN  IF Len(stmt.params) = 4 /\ (v(2) = Null \/ PgIsInt(v(2)))
        THEN [err |-> "none", rows |-> <<row>>, table |-> table \cup {row}, seq |-> seq + 1]
        ELSE [err |-> "DatabaseError", rows |-> << >>, table |-> table, seq |-> seq]

\* INSERT INTO companies (handle, name, description, num_employees, logo_url)
\* VALUES ($1, $2, $3, $4, $5) RETURNING ...
ExecInsertCompany(stmt, table) ==
    LET row == [handle |-> PgParam(stmt.params[1]), name |-> PgParam(stmt.params[2]),
                description |-> PgParam(stmt.params[3]),
                numEmployees |-> PgParam(stmt.params[4]),
                logoUrl |-> PgParam(stmt.params[5])]
    IN  IF Len(stmt.params) = 5 /\ (row.numEmployees = Null \/ PgIsInt(row.numEmployees))
        THEN DbOk(<<row>>, table \cup {row})
        ELSE DbError(table)

(****************** models/job.js, models/company.js ***********************)
\* `%${v}%`
Wrap(v) == Str("%" \o JsToString(v) \o "%")

\* variant: hasEquity is compared with a bound parameter, as in the earlier
\* Job.sqlForFiltering
JobFilterFragmentBoundEquity(o, colName, idx) ==
    IF colName = "titleLike" THEN Text(<<"title ILIKE ", Ph(idx + 1)>>)
    ELSE IF colName = "minSalary" THEN Text(<<"salary >= ", Ph(idx + 1)>>)
    ELSE IF colName = "hasEquity" THEN Text(<<"has_equity = ", Ph(idx + 1)>>)
    ELSE Undefined

\* the callback of keys.map in Job.sqlForFiltering, applied to key number
\* idx + 1 of keys; o is the filter object as the earlier keys left it
JobFilterFragment(o, colName, idx) ==
    IF colName = "titleLike" THEN Text(<<"title ILIKE ", Ph(idx + 1)>>)
    ELSE IF colName = "minSalary" THEN Text(<<"salary >= ", Ph(idx + 1)>>)
    ELSE IF colName = "hasEquity" /\ IsTrue(ObjGet(o, "hasEquity"))
         THEN Text(<<"equity IS NOT NULL AND equity != 0">>)
    ELSE Undefined

JobFilterEffect(o, colName) ==
    IF colName = "titleLike" THEN ObjSet(o, "titleLike", Wrap(ObjGet(o, "titleLike"))) ELSE o

\* keys.map(...) of Job.sqlForFiltering from key number i on
RECURSIVE JobFilterMap(_, _, _)
JobFilterMap(keys, i, o) ==
    IF i > Len(keys) THEN [o |-> o, cols |-> << >>]
    ELSE LET o1 == JobFilterEffect(o, keys[i])
             rest == JobFilterMap(keys, i + 1, o1)
         IN  [o |-> rest.o, cols |-> <<JobFilterFragment(o1, keys[i], i - 1)>> \o rest.cols]

\* variant: the clause keeps its WHERE keyword when nothing is filtered
NoFilteringBareWhere(op) == Returned(op, <<"\nWHERE ">>, << >>)

\* return { whereClause: "", values: [] }
NoFiltering(op) == Returned(op, << >>, << >>)

\* variant: a false hasEquity is left in the filter
KeepFalseHasEquity(o) == o

\* if (dataToFilter.hasEquity === false) delete dataToFilter.hasEquity
DropFalseHasEquity(o) ==
    IF IsFalse(ObjGet(o, "hasEquity")) THEN ObjDelete(o, "hasEquity") ELSE o

\* Job.sqlForFiltering: the value returned and the argument as the call leaves it
JobSqlForFiltering(arg) ==
    IF ~Truthy(arg)
    THEN [ret |-> NoFiltering("Job.sqlForFiltering"), arg |-> arg]
    ELSE LET o0 == DropFalseHasEquity(arg.o)
             keys == ObjKeys(o0)
             m == JobFilterMap(keys, 1, o0)
             whereClause == IF Len(m.cols) > 0
                            THEN <<"\nWHERE ">> \o Join(m.cols, " AND ") ELSE << >>
             o2 == ObjDelete(m.o, "hasEquity")
         IN  IF Len(keys) = 0
             THEN [ret |-> NoFiltering("Job.sqlForFiltering"), arg |-> Obj(o0)]
             ELSE [ret |-> Returned("Job.sqlForFiltering", whereClause, ObjValues(o2)),
                   arg |-> Obj(o2)]

\* variant: maxEmployees is compared as a lower bound
CompanyFilterFragmentMaxAsMin(o, colName, idx) ==
    IF colName = "nameLike" THEN Text(<<"name ILIKE ", Ph(idx + 1)>>)
    ELSE IF colName = "minEmployees" THEN Text(<<"num_employees >= ", Ph(idx + 1)>>)
    ELSE IF colName = "maxEmployees" THEN Text(<<"num_employees >= ", Ph(idx + 1)>>)
    ELSE Undefined

\* the callback of keys.map in Company.sqlForFiltering
CompanyFilterFragment(o, colName, idx) ==
    IF colName = "nameLike" THEN Text(<<"name ILIKE ", Ph(idx + 1)>>)
    ELSE IF colName = "minEmployees" THEN Text(<<"num_employees >= ", Ph(idx + 1)>>)
    ELSE IF colName = "maxEmployees" THEN Text(<<"num_employees <= ", Ph(idx + 1)>>)
    ELSE Undefined

CompanyFilterEffect(o, colName) ==
    IF colName = "nameLike" THEN ObjSet(o, "nameLike", Wrap(ObjGet(o, "nameLike"))) ELSE o

RECURSIVE CompanyFilterMap(_, _, _)
CompanyFilterMap(keys, i, o) ==
    IF i > Len(keys) THEN [o |-> o, cols |-> << >>]
    ELSE LET o1 == CompanyFilterEffect(o, keys[i])
             rest == CompanyFilterMap(keys, i + 1, o1)
         IN  [o |-> rest.o, cols |-> <<CompanyFilterFragment(o1, keys[i], i - 1)>> \o rest.cols]

\* Company.sqlForFiltering: the value returned and the argument as the call leaves it
CompanySqlForFiltering(arg) ==
    IF ~Truthy(arg)
    THEN [ret |-> NoFiltering("Company.sqlForFiltering"), arg |-> arg]
    ELSE LET keys == ObjKeys(arg.o)
             m == CompanyFilterMap(keys, 1, arg.o)
             whereClause == IF Len(m.cols) > 0
                            THEN <<"\nWHERE ">> \o Join(m.cols, " AND ") ELSE << >>
         IN  IF Len(keys) = 0
             THEN [ret |-> NoFiltering("Company.sqlForFiltering"), arg |-> arg]
             ELSE [ret |-> Returned("Company.sqlForFiltering", whereClause, ObjValues(m.o)),
                   arg |-> Obj(m.o)]

\* variant: the job is returned as it was before the update
JobUpdateReturnsOld(id, data, table) ==
    LET s == sqlForPartialUpdate(data, EmptyObj)
        idVarIdx == Ph(Len(s.values) + 1)
        stmt == [params |-> s.values \o <<id>>, table |-> "jobs", set |-> s.text,
                 keyPh |-> idVarIdx,
                 verb |-> "UPDATE"]
        x == ExecUpdate(stmt, table)
    IN  IF s.err # "none"
        THEN [ret |-> Threw("Job.update", s.err), queries |-> << >>, table |-> table]
        ELSE IF x.err # "none"
        THEN [ret |-> Threw("Job.update", x.err), queries |-> <<stmt>>, table |-> table]
        ELSE IF x.rows = << >>
        THEN [ret |-> Threw("Job.update", "NotFoundError"), queries |-> <<stmt>>,
              table |-> x.table]
        ELSE [ret |-> [text |-> << >>, op |-> "Job.update", err |-> "none",
                       values |-> << >>,
                       rows |-> <<CHOOSE r \in table : r.id = x.rows[1].id>>],
              queries |-> <<stmt>>, table |-> x.table]

\* Job.update(id, data) on table jobs
JobUpdate(id, data, table) ==
    LET s == sqlForPartialUpdate(data, EmptyObj)
        idVarIdx == Ph(Len(s.values) + 1)
        stmt == [params |-> s.values \o <<id>>, table |-> "jobs", set |-> s.text,
                 keyPh |-> idVarIdx,
                 verb |-> "UPDATE"]
        x == ExecUpdate(stmt, table)
    IN  IF s.err # "none"
        THEN [ret |-> Threw("Job.update", s.err), queries |-> << >>, table |-> table]
        ELSE IF x.err # "none"
        THEN [ret |-> Threw("Job.update", x.err), queries |-> <<stmt>>, table |-> table]
        ELSE IF x.rows = << >>
        THEN [ret |-> Threw("Job.update", "NotFoundError"), queries |-> <<stmt>>,
              table |-> x.table]
        ELSE [ret |-> [text |-> << >>, op |-> "Job.update", err |-> "none",
                       values |-> << >>, rows |-> <<x.rows[1]>>],
              queries |-> <<stmt>>, table |-> x.table]

\* the jsToSql of Company.update
CompanyJsToSql ==
    <<Entry("numEmployees", Str("num_employees")), Entry("logoUrl", Str("logo_url"))>>

\* variant: the handle placeholder takes the number of the last SET placeholder
CompanyUpdateHandleAtLen(handle, data, table) ==
    LET s == sqlForPartialUpdate(data, CompanyJsToSql)
        handleVarIdx == Ph(Len(s.values))
        stmt == [params |-> s.values \o <<handle>>, table |-> "companies", set |-> s.text,
                 keyPh |-> handleVarIdx, verb |-> "UPDATE"]
        x == ExecUpdate(stmt, table)
    IN  IF s.err # "none"
        THEN [ret |-> Threw("Company.update", s.err), queries |-> << >>, table |-> table]
        ELSE IF x.err # "none"
        THEN [ret |-> Threw("Company.update", x.err), queries |-> <<stmt>>, table |-> table]
        ELSE IF x.rows = << >>
        THEN [ret |-> Threw("Company.update", "NotFoundError"), queries |-> <<stmt>>,
              table |-> x.table]
        ELSE [ret |-> [text |-> << >>, op |-> "Company.update", err |-> "none",
                       values |-> << >>, rows |-> <<x.rows[1]>>],
              queries |-> <<stmt>>, table |-> x.table]

\* Company.update(handle, data) on table companies
CompanyUpdate(handle, data, table) ==
    LET s == sqlForPartialUpdate(data, CompanyJsToSql)
        handleVarIdx == Ph(Len(s.values) + 1)
        stmt == [params |-> s.values \o <<handle>>, table |-> "companies", set |-> s.text,
                 keyPh |-> handleVarIdx, verb |-> "UPDATE"]
        x == ExecUpdate(stmt, table)
    IN  IF s.err # "none"
        THEN [ret |-> Threw("Company.update", s.err), queries |-> << >>, table |-> table]
        ELSE IF x.err # "none"
        THEN [ret |-> Threw("Company.update", x.err), queries |-> <<stmt>>, table |-> table]
        ELSE IF x.rows = << >>
        THEN [ret |-> Threw("Company.update", "NotFoundError"), queries |-> <<stmt>>,
              table |-> x.table]
        ELSE [ret |-> [text |-> << >>, op |-> "Company.update", err |-> "none",
                       values |-> << >>, rows |-> <<x.rows[1]>>],
              queries |-> <<stmt>>, table |-> x.table]

\* Job.findAllWithFilter(filterQuery) on table jobs
JobFindAllWithFilter(arg, table) ==
    LET b == JobSqlForFiltering(arg)
        stmt == [params |-> b.ret.values, table |-> "jobs", where |-> b.ret.text,
                 verb |-> "SELECT"]
        x == ExecSelect(stmt, table)
    IN  [ret |-> IF x.err # "none" THEN Threw("Job.findAllWithFilter", x.err)
                 ELSE [text |-> << >>, op |-> "Job.findAllWithFilter", err |-> "none",
                       values |-> << >>, rows |-> x.rows],
         queries |-> <<stmt>>, arg |-> b.arg]

\* Company.findAllWithFilter(filterQuery) on table companies
CompanyFindAllWithFilter(arg, table) ==
    LET b == CompanySqlForFiltering(arg)
        stmt == [params |-> b.ret.values, table |-> "companies", where |-> b.ret.text,
                 verb |-> "SELECT"]
        x == ExecSelect(stmt, table)
    IN  [ret |-> IF x.err # "none" THEN Threw("Company.findAllWithFilter", x.err)
                 ELSE [text |-> << >>, op |-> "Company.findAllWithFilter", err |-> "none",
                       values |-> << >>, rows |-> x.rows],
         queries |-> <<stmt>>, arg |-> b.arg]

\* Company.get(handle): the company with its jobs
CompanyGet(handle, companiesTable, jobsTable) ==
    LET q1 == [params |-> <<handle>>, col |-> "handle", table |-> "companies",
               keyPh |-> Ph(1), verb |-> "SELECT"]
        companyRes == ExecSelectBy(q1, companiesTable)
        q2 == [params |-> <<handle>>, col |-> "company_handle", table |-> "jobs",
               keyPh |-> Ph(1), verb |-> "SELECT"]
        jobsRes == ExecSelectBy(q2, jobsTable)
        company == companyRes.rows[1]
        jobRows == [i \in 1..Len(jobsRes.rows) |->
                       [f \in {"id", "title", "salary", "equity"} |-> jobsRes.rows[i][f]]]
    IN  IF companyRes.err # "none"
        THEN [ret |-> Threw("Company.get", companyRes.err), queries |-> <<q1>>]
        ELSE IF companyRes.rows = << >>
        THEN [ret |-> Threw("Company.get", "NotFoundError"), queries |-> <<q1>>]
        ELSE IF jobsRes.err # "none"
        THEN [ret |-> Threw("Company.get", jobsRes.err), queries |-> <<q1, q2>>]
        ELSE [ret |-> [text |-> << >>, op |-> "Company.get", err |-> "none",
                       values |-> << >>,
                       rows |-> <<[f \in DOMAIN company \cup {"jobs"} |->
                                     IF f = "jobs" THEN jobRows ELSE company[f]]>>],
              queries |-> <<q1, q2>>]

\* variant: the company is not looked up before the insert
JobCreateNoLookup(data, jobsTable, companiesTable, seq) ==
    LET stmt == [params |-> <<ObjGet(data, "title"), ObjGet(data, "salary"),
                              ObjGet(data, "equity"), ObjGet(data, "companyHandle")>>,
                 table |-> "jobs", verb |-> "INSERT"]
        x == ExecInsertJob(stmt, jobsTable, seq)
    IN  IF x.err # "none"
        THEN [ret |-> Threw("Job.create", x.err), queries |-> <<stmt>>,
              table |-> jobsTable, seq |-> seq]
        ELSE [ret |-> [text |-> << >>, op |-> "Job.create", err |-> "none",
                       values |-> << >>, rows |-> <<x.rows[1]>>],
              queries |-> <<stmt>>, table |-> x.table, seq |-> x.seq]

\* Job.create({ title, salary, equity, companyHandle })
JobCreate(data, jobsTable, companiesTable, seq) ==
    LET g == CompanyGet(ObjGet(data, "companyHandle"), companiesTable, jobsTable)
        stmt == [params |-> <<ObjGet(data, "title"), ObjGet(data, "salary"),
                              ObjGet(data, "equity"), ObjGet(data, "companyHandle")>>,
                 table |-> "jobs", verb |-> "INSERT"]
        x == ExecInsertJob(stmt, jobsTable, seq)
    IN  IF g.ret.err # "none"
        THEN [ret |-> Threw("Job.create", g.ret.err), queries |-> g.queries,
              table |-> jobsTable, seq |-> seq]
        ELSE IF x.err # "none"
        THEN [ret |-> Threw("Job.create", x.err), queries |-> g.queries \o <<stmt>>,
              table |-> jobsTable, seq |-> seq]
        ELSE [ret |-> [text |-> << >>, op |-> "Job.create", err |-> "none",
                       values |-> << >>, rows |-> <<x.rows[1]>>],
              queries |-> g.queries \o <<stmt>>, table |-> x.table, seq |-> x.seq]

\* variant: the insert is sent without the duplicate check
CompanyCreateNoDuplicateCheck(data, table) ==
    LET stmt == [params |-> <<ObjGet(data, "handle"), ObjGet(data, "name"),
                              ObjGet(data, "description"), ObjGet(data, "numEmployees"),
                              ObjGet(data, "logoUrl")>>,
                 table |-> "companies", verb |-> "INSERT"]
        x == ExecInsertCompany(stmt, table)
    IN  IF x.err # "none"
        THEN [ret |-> Threw("Company.create", x.err), queries |-> <<stmt>>, table |-> table]
        ELSE [ret |-> [text |-> << >>, op |-> "Company.create", err |-> "none",
                       values |-> << >>, rows |-> <<x.rows[1]>>],
              queries |-> <<stmt>>, table |-> x.table]

\* Company.create({ handle, name, description, numEmployees, logoUrl })
CompanyCreate(data, table) ==
    LET q == [params |-> <<ObjGet(data, "handle")>>, col |-> "handle",
              table |-> "companies", keyPh |-> Ph(1),
              verb |-> "SELECT"]
        duplicateCheck == ExecSelectBy(q, table)
        stmt == [params |-> <<ObjGet(data, "handle"), ObjGet(data, "name"),
                              ObjGet(data, "description"), ObjGet(data, "numEmployees"),
                              ObjGet(data, "logoUrl")>>,
                 table |-> "companies", verb |-> "INSERT"]
        x == ExecInsertCompany(stmt, table)
    IN  IF duplicateCheck.err # "none"
        THEN [ret |-> Threw("Company.create", duplicateCheck.err), queries |-> <<q>>,
              table |-> table]
        ELSE IF duplicateCheck.rows # << >>
        THEN [ret |-> Threw("Company.create", "BadRequestError"), queries |-> <<q>>,
              table |-> table]
        ELSE IF x.err # "none"
        THEN [ret |-> Threw("Company.create", x.err), queries |-> <<q, stmt>>,
              table |-> table]
        ELSE [ret |-> [text |-> << >>, op |-> "Company.create", err |-> "none",
                       values |-> << >>, rows |-> <<x.rows[1]>>],
              queries |-> <<q, stmt>>, table |-> x.table]

\* Job.get(id)
JobGet(id, table) ==
    LET stmt == [params |-> <<id>>, col |-> "id", table |-> "jobs", keyPh |-> Ph(1),
                 verb |-> "SELECT"]
        jobRes == ExecSelectBy(stmt, table)
    IN  IF jobRes.err # "none"
        THEN [ret |-> Threw("Job.get", jobRes.err), queries |-> <<stmt>>]
        ELSE IF jobRes.rows = << >>
        THEN [ret |-> Threw("Job.get", "NotFoundError"), queries |-> <<stmt>>]
        ELSE [ret |-> [text |-> << >>, op |-> "Job.get", err |-> "none",
                       values |-> << >>, rows |-> <<jobRes.rows[1]>>],
              queries |-> <<stmt>>]

\* variant: a remove that deleted nothing returns as one that did
JobRemoveNoCheck(id, table) ==
    LET stmt == [params |-> <<id>>, table |-> "jobs", keyPh |-> Ph(1), verb |-> "DELETE"]
        x == ExecDelete(stmt, table)
    IN  IF x.err # "none"
        THEN [ret |-> Threw("Job.remove", x.err), queries |-> <<stmt>>, table |-> table]
        ELSE [ret |-> Outcome("Job.remove", "none"), queries |-> <<stmt>>,
              table |-> x.table]

\* variant: the DELETE is answered but the row stays stored
JobRemoveKeepsRow(id, table) ==
    LET stmt == [params |-> <<id>>, table |-> "jobs", keyPh |-> Ph(1), verb |-> "DELETE"]
        x == ExecDelete(stmt, table)
    IN  IF x.err # "none"
        THEN [ret |-> Threw("Job.remove", x.err), queries |-> <<stmt>>, table |-> table]
        ELSE IF x.rows = << >>
        THEN [ret |-> Threw("Job.remove", "NotFoundError"), queries |-> <<stmt>>,
              table |-> table]
        ELSE [ret |-> Outcome("Job.remove", "none"), queries |-> <<stmt>>,
              table |-> table]

\* Job.remove(id)
JobRemove(id, table) ==
    LET stmt == [params |-> <<id>>, table |-> "jobs", keyPh |-> Ph(1), verb |-> "DELETE"]
        x == ExecDelete(stmt, table)
    IN  IF x.err # "none"
        THEN [ret |-> Threw("Job.remove", x.err), queries |-> <<stmt>>, table |-> table]
        ELSE IF x.rows = << >>
        THEN [ret |-> Threw("Job.remove", "NotFoundError"), queries |-> <<stmt>>,
              table |-> x.table]
        ELSE [ret |-> Outcome("Job.remove", "none"), queries |-> <<stmt>>,
              table |-> x.table]

(***************************** middleware/auth *****************************)
SECRET_KEY == "secret-dev"

\* payloads of the tokens in use, by the name that stands for their encoding
TokenPayloads ==
    [test |-> <<Entry("username", Str("test")), Entry("isAdmin", Bool(FALSE))>>,
     admin |-> <<Entry("username", Str("admin")), Entry("isAdmin", Bool(TRUE))>>]

\* jwt.sign(payload, key): the encoded payload, then the signature made with key
JwtSign(name, key) == name \o "." \o key

\* jwt.verify(token, key): the payload with its iat claim when the signature
\* was made with key, JsonWebTokenError otherwise
JwtVerify(token, key) ==
    IF \E name \in DOMAIN TokenPayloads : token = JwtSign(name, key)
    THEN LET name == CHOOSE n \in DOMAIN TokenPayloads : token = JwtSign(n, key)
         IN  [err |-> "none",
              payload |-> Obj(<<Entry("iat", Num(1))>> \o TokenPayloads[name])]
    ELSE [err |-> "JsonWebTokenError", payload |-> Undefined]

\* s.replace(/^[Bb]earer /, "")
StripBearer(s) ==
    IF Len(s) >= 7 /\ SubSeq(s, 1, 7) \in {"Bearer ", "bearer "}
    THEN SubSeq(s, 8, Len(s)) ELSE s

\* s.trim()
RECURSIVE Trim(_)
Trim(s) ==
    IF Len(s) = 0 THEN s
    ELSE IF SubSeq(s, 1, 1) = " " THEN Trim(SubSeq(s, 2, Len(s)))
    ELSE IF SubSeq(s, Len(s), Len(s)) = " " THEN Trim(SubSeq(s, 1, Len(s) - 1))
    ELSE s

\* v?.k
OptProp(v, k) == IF v.t = "obj" THEN ObjGet(v.o, k) ELSE Undefined

\* what a middleware did: the error it threw, its calls of next, res.locals
Passed(lc) == [locals |-> lc, nexts |-> 1, err |-> "none"]
Unauthorized(lc) == [locals |-> lc, nexts |-> 0, err |-> "UnauthorizedError"]

\* variant: the error of jwt.verify is not caught
authenticateJWTNoCatch(rq, lc) ==
    LET authHeader == OptProp(ObjGet(rq, "headers"), "authorization")
        v == JwtVerify(Trim(StripBearer(authHeader.s)), SECRET_KEY)
    IN  IF Truthy(authHeader)
        THEN IF v.err = "none" THEN Passed(ObjSet(lc, "user", v.payload))
             ELSE [locals |-> lc, nexts |-> 0, err |-> v.err]
        ELSE Passed(lc)

\* authenticateJWT(req, res, next); a header value is a string
authenticateJWT(rq, lc) ==
    LET authHeader == OptProp(ObjGet(rq, "headers"), "authorization")
        v == JwtVerify(Trim(StripBearer(authHeader.s)), SECRET_KEY)
    IN  IF Truthy(authHeader)
        THEN IF v.err = "none" THEN Passed(ObjSet(lc, "user", v.payload))
             ELSE Passed(lc)
        ELSE Passed(lc)

\* ensureIsAdmin(req, res, next)
ensureIsAdmin(rq, lc) ==
    LET currentUser == ObjGet(lc, "user")
        isNotAdmin == IsFalse(OptProp(currentUser, "isAdmin"))
    IN  IF ~Truthy(currentUser) \/ ~Truthy(OptProp(currentUser, "username")) \/ isNotAdmin
        THEN Unauthorized(lc)
        ELSE Passed(lc)

\* ensureCorrectUserOrIsAdmin(req, res, next)
ensureCorrectUserOrIsAdmin(rq, lc) ==
    LET currentUser == ObjGet(lc, "user")
        hasUnauthorizedUsername ==
            OptProp(currentUser, "username") # OptProp(ObjGet(rq, "params"), "username")
        isNotAdmin == IsFalse(OptProp(currentUser, "isAdmin"))
    IN  IF \/ ~Truthy(currentUser)
           \/ ~Truthy(OptProp(currentUser, "username"))
           \/ (hasUnauthorizedUsername /\ isNotAdmin)
        THEN Unauthorized(lc)
        ELSE Passed(lc)

(****************************** routes/jobs.js *****************************)
\* the request as the router hands it to the middleware and the handler
Request(method, url, headers, params, body) ==
    <<Entry("method", Str(method)), Entry("url", Str(url)), Entry("headers", Obj(headers)),
      Entry("params", Obj(params)), Entry("body", Obj(body))>>

\* a property of the body is absent or of JSON type ty
OfType(body, k, ty) == ObjGet(body, k).t \in {"undefined", ty}

\* jsonschema.validate(req.body, jobNewSchema).valid
ValidJobNew(body) ==
    /\ ObjGet(body, "title").t = "str"
    /\ ObjGet(body, "companyHandle").t = "str"
    /\ OfType(body, "salary", "num")
    /\ OfType(body, "equity", "str")

\* jsonschema.validate(req.body, jobUpdateSchema).valid
ValidJobUpdate(body) ==
    /\ OfType(body, "title", "str")
    /\ OfType(body, "salary", "num")
    /\ OfType(body, "equity", "str")

\* variant: the route has no ensureIsAdmin
AuthorizeAnyone(rq) == Passed(authenticateJWT(rq, EmptyObj).locals)

\* authenticateJWT on a fresh res.locals, then the route's ensureIsAdmin
Authorize(rq) == ensureIsAdmin(rq, authenticateJWT(rq, EmptyObj).locals)

\* what a route did that stopped before its model method
Stopped(route, err, a, table, seq) ==
    [ret |-> Threw(route, err), queries |-> << >>, locals |-> a.locals, nexts |-> a.nexts,
     called |-> << >>, table |-> table, seq |-> seq]

\* router.post("/", ensureIsAdmin, ...)
PostJobs(rq, jobsTable, companiesTable, seq) ==
    LET a == Authorize(rq)
        body == ObjGet(rq, "body").o
        r == JobCreate(body, jobsTable, companiesTable, seq)
    IN  IF a.err # "none" THEN Stopped("POST /jobs", a.err, a, jobsTable, seq)
        ELSE IF ~ValidJobNew(body)
        THEN Stopped("POST /jobs", "BadRequestError", a, jobsTable, seq)
        ELSE [ret |-> [r.ret EXCEPT !.op = "POST /jobs"], queries |-> r.queries,
              locals |-> a.locals, nexts |-> a.nexts, called |-> <<"Job.create">>,
              table |-> r.table, seq |-> r.seq]

\* router.patch("/:id", ensureIsAdmin, ...)
PatchJob(rq, jobsTable, seq) ==
    LET a == Authorize(rq)
        body == ObjGet(rq, "body").o
        r == JobUpdate(ObjGet(ObjGet(rq, "params").o, "id"), body, jobsTable)
    IN  IF a.err # "none" THEN Stopped("PATCH /jobs/:id", a.err, a, jobsTable, seq)
        ELSE IF ~ValidJobUpdate(body)
        THEN Stopped("PATCH /jobs/:id", "BadRequestError", a, jobsTable, seq)
        ELSE [ret |-> [r.ret EXCEPT !.op = "PATCH /jobs/:id"], queries |-> r.queries,
              locals |-> a.locals, nexts |-> a.nexts, called |-> <<"Job.update">>,
              table |-> r.table, seq |-> seq]

\* router.delete("/:id", ensureIsAdmin, ...)
DeleteJob(rq, jobsTable, seq) ==
    LET a == Authorize(rq)
        id == ObjGet(ObjGet(rq, "params").o, "id")
        r == JobRemove(id, jobsTable)
    IN  IF a.err # "none" THEN Stopped("DELETE /jobs/:id", a.err, a, jobsTable, seq)
        ELSE [ret |-> IF r.ret.err # "none" THEN [r.ret EXCEPT !.op = "DELETE /jobs/:id"]
                      ELSE [text |-> << >>, op |-> "DELETE /jobs/:id", err |-> "none",
                            values |-> << >>, rows |-> <<[deleted |-> id]>>],
              queries |-> r.queries, locals |-> a.locals, nexts |-> a.nexts,
              called |-> <<"Job.remove">>, table |-> r.table, seq |-> seq]

\* the request of a GET: the parsed query string is req.query, its values strings
GetRequest(url, query) ==
    Request("GET", url, EmptyObj, EmptyObj, EmptyObj) \o <<Entry("query", Obj(query))>>

\* the value Number(v) gives for a string that does not spell a number
NaN == [t |-> "nan"]

\* Number(v) of a query-string value
JsNumber(v) == IF v.t = "str" /\ PgIsInt(v) THEN Num(PgInt(v)) ELSE NaN

\* Boolean(v)
JsBoolean(v) == Bool(Truthy(v))

\* the characters of the numerals in the order of their code units
DigitChars == "0123456789"

CodeUnit(c) == CHOOSE i \in 1..Len(DigitChars) : SubSeq(DigitChars, i, i) = c

\* a > b of two strings: by the first code unit that differs, a proper prefix
\* being the smaller
RECURSIVE StrGreater(_, _)
StrGreater(a, b) ==
    IF a = "" THEN FALSE
    ELSE IF b = "" THEN TRUE
    ELSE IF SubSeq(a, 1, 1) = SubSeq(b, 1, 1)
    THEN StrGreater(SubSeq(a, 2, Len(a)), SubSeq(b, 2, Len(b)))
    ELSE CodeUnit(SubSeq(a, 1, 1)) > CodeUnit(SubSeq(b, 1, 1))

\* jsonschema.validate(queryResp, jobFilterSchema).valid
ValidJobFilter(queryResp) ==
    /\ OfType(queryResp, "title", "str")
    /\ OfType(queryResp, "minSalary", "num")
    /\ OfType(queryResp, "hasEquity", "bool")

\* jsonschema.validate(queryResp, companyFilterSchema).valid
ValidCompanyFilter(queryResp) ==
    /\ OfType(queryResp, "nameLike", "str")
    /\ OfType(queryResp, "minEmployees", "num")
    /\ OfType(queryResp, "maxEmployees", "num")

\* router.get("/") of jobs; authenticateJWT has run, no token on the request
GetJobs(rq, jobsTable) ==
    LET a == authenticateJWT(rq, EmptyObj)
        query == ObjGet(rq, "query").o
        minSalary == IF Truthy(ObjGet(query, "minSalary"))
                     THEN JsNumber(ObjGet(query, "minSalary")) ELSE Undefined
        hasEquity == IF Truthy(ObjGet(query, "hasEquity"))
                     THEN JsBoolean(ObjGet(query, "hasEquity")) ELSE Undefined
        queryResp == <<Entry("title", Undefined), Entry("minSalary", minSalary),
                       Entry("hasEquity", hasEquity)>>
        r == JobFindAllWithFilter(Obj(query), jobsTable)
    IN  IF ~ValidJobFilter(queryResp)
        THEN [ret |-> Threw("GET /jobs", "BadRequestError"), queries |-> << >>,
              locals |-> a.locals, nexts |-> a.nexts, called |-> << >>]
        ELSE [ret |-> [r.ret EXCEPT !.op = "GET /jobs"], queries |-> r.queries,
              locals |-> a.locals, nexts |-> a.nexts,
              called |-> <<"Job.findAllWithFilter">>]

\* router.get("/") of companies
GetCompanies(rq, companiesTable) ==
    LET a == authenticateJWT(rq, EmptyObj)
        query == ObjGet(rq, "query").o
        nameLike == ObjGet(query, "nameLike")
        minEmployees == IF Truthy(ObjGet(query, "minEmployees"))
                        THEN JsNumber(ObjGet(query, "minEmployees")) ELSE Undefined
        maxEmployees == IF Truthy(ObjGet(query, "maxEmployees"))
                        THEN JsNumber(ObjGet(query, "maxEmployees")) ELSE Undefined
        queryResp == <<Entry("nameLike", nameLike), Entry("minEmployees", minEmployees),
                       Entry("maxEmployees", maxEmployees)>>
        r == CompanyFindAllWithFilter(Obj(query), companiesTable)
    IN  IF /\ ObjHas(query, "minEmployees")
           /\ ObjHas(query, "maxEmployees")
           /\ StrGreater(ObjGet(query, "minEmployees").s, ObjGet(query, "maxEmployees").s)
        THEN [ret |-> Threw("GET /companies", "BadRequestError"), queries |-> << >>,
              locals |-> a.locals, nexts |-> a.nexts, called |-> << >>]
        ELSE IF ~ValidCompanyFilter(queryResp)
        THEN [ret |-> Threw("GET /companies", "BadRequestError"), queries |-> << >>,
              locals |-> a.locals, nexts |-> a.nexts, called |-> << >>]
        ELSE [ret |-> [r.ret EXCEPT !.op = "GET /companies"], queries |-> r.queries,
              locals |-> a.locals, nexts |-> a.nexts,
              called |-> <<"Company.findAllWithFilter">>]

(******************************* inputs ************************************)
\* objects of at most MaxKeys entries drawn from entries, no key twice
ObjectsOver(entries) ==
    {o \in UNION {[1..n -> entries] : n \in 0..MaxKeys} :
        \A i, j \in 1..Len(o) : o[i].k = o[j].k => i = j}

UpdateEntries ==
    { Entry("firstName", Str("Aliya")), Entry("age", Num(32)),
      Entry("title", Str("New")), Entry("salary", Num(500000)), Entry("salary", Null),
      Entry("equity", Str("0.8")), Entry("name", Str("New")),
      Entry("numEmployees", Num(10)) }

ColumnMaps ==
    { EmptyObj,
      <<Entry("firstName", Str("first_name")), Entry("age", Str("age"))>>,
      CompanyJsToSql }

FilterEntries ==
    { Entry("titleLike", Str("2")), Entry("minSalary", Num(100000)),
      Entry("minSalary", Num(200000)),
      Entry("hasEquity", Bool(TRUE)), Entry("hasEquity", Bool(FALSE)),
      Entry("hasEquity", Str("true")),
      Entry("nameLike", Str("net")), Entry("minEmployees", Num(2)),
      Entry("maxEmployees", Num(400)), Entry("randomQueryString", Str("ingored")) }

JobIdArgs == {Num(1), Num(999)}
HandleArgs == {Str("c1"), Str("nope")}

(************************ the update builder at work ***********************)
InitUpdate ==
    /\ dataToUpdate \in ObjectsOver(UpdateEntries)
    /\ jsToSql \in ColumnMaps
    /\ dataToFilter = Undefined
    /\ filterArg = Undefined
    /\ calls = 0
    /\ ret = NoRet
    /\ queries = << >>
    /\ jobs = JobsFixture
    /\ companies = CompaniesFixture
    /\ jobSeq = LastJobId
    /\ req = EmptyObj
    /\ locals = EmptyObj
    /\ nexts = 0
    /\ called = << >>
    /\ args = << >>

SqlForPartialUpdateCall ==
    /\ ret' = sqlForPartialUpdate(dataToUpdate, jsToSql)
    /\ queries' = << >>
    /\ UNCHANGED <<dataToUpdate, jsToSql, dataToFilter, filterArg, calls, jobs, companies>>
    /\ UNCHANGED <<jobSeq, req, locals, nexts, called>>
    /\ args' = <<Obj(dataToUpdate), Obj(jsToSql)>>

JobUpdateCall ==
    \E id \in JobIdArgs :
        LET r == JobUpdate(id, dataToUpdate, jobs)
        IN  /\ ret' = r.ret
            /\ queries' = r.queries
            /\ jobs' = r.table
            /\ UNCHANGED <<dataToUpdate, jsToSql, dataToFilter, filterArg, calls, companies>>
            /\ UNCHANGED <<jobSeq, req, locals, nexts, called>>
            /\ args' = <<id, Obj(dataToUpdate)>>

CompanyUpdateCall ==
    \E handle \in HandleArgs :
        LET r == CompanyUpdate(handle, dataToUpdate, companies)
        IN  /\ ret' = r.ret
            /\ queries' = r.queries
            /\ companies' = r.table
            /\ UNCHANGED <<dataToUpdate, jsToSql, dataToFilter, filterArg, calls, jobs>>
            /\ UNCHANGED <<jobSeq, req, locals, nexts, called>>
            /\ args' = <<handle, Obj(dataToUpdate)>>

NextUpdate == SqlForPartialUpdateCall \/ JobUpdateCall \/ CompanyUpdateCall

SpecUpdate == InitUpdate /\ [][NextUpdate]_vars

(************************ the filter builders at work **********************)
InitFilter ==
    /\ dataToFilter \in {Undefined} \cup {Obj(o) : o \in ObjectsOver(FilterEntries)}
    /\ filterArg = dataToFilter
    /\ calls = 0
    /\ dataToUpdate = EmptyObj
    /\ jsToSql = EmptyObj
    /\ ret = NoRet
    /\ queries = << >>
    /\ jobs = JobsFixture
    /\ companies = CompaniesFixture
    /\ jobSeq = LastJobId
    /\ req = EmptyObj
    /\ locals = EmptyObj
    /\ nexts = 0
    /\ called = << >>
    /\ args = << >>

JobSqlForFilteringCall ==
    /\ calls < MaxCalls
    /\ LET r == JobSqlForFiltering(dataToFilter)
       IN  /\ ret' = r.ret
           /\ dataToFilter' = r.arg
    /\ filterArg' = dataToFilter
    /\ calls' = calls + 1
    /\ queries' = << >>
    /\ UNCHANGED <<dataToUpdate, jsToSql, jobs, companies>>
    /\ UNCHANGED <<jobSeq, req, locals, nexts, called>>
    /\ args' = <<dataToFilter>>

CompanySqlForFilteringCall ==
    /\ calls < MaxCalls
    /\ LET r == CompanySqlForFiltering(dataToFilter)
       IN  /\ ret' = r.ret
           /\ dataToFilter' = r.arg
    /\ filterArg' = dataToFilter
    /\ calls' = calls + 1
    /\ queries' = << >>
    /\ UNCHANGED <<dataToUpdate, jsToSql, jobs, companies>>
    /\ UNCHANGED <<jobSeq, req, locals, nexts, called>>
    /\ args' = <<dataToFilter>>

JobFindAllWithFilterCall ==
    /\ calls < MaxCalls
    /\ LET r == JobFindAllWithFilter(dataToFilter, jobs)
       IN  /\ ret' = r.ret
           /\ queries' = r.queries
           /\ dataToFilter' = r.arg
    /\ filterArg' = dataToFilter
    /\ calls' = calls + 1
    /\ UNCHANGED <<dataToUpdate, jsToSql, jobs, companies>>
    /\ UNCHANGED <<jobSeq, req, locals, nexts, called>>
    /\ args' = <<dataToFilter>>

CompanyFindAllWithFilterCall ==
    /\ calls < MaxCalls
    /\ LET r == CompanyFindAllWithFilter(dataToFilter, companies)
       IN  /\ ret' = r.ret
           /\ queries' = r.queries
           /\ dataToFilter' = r.arg
    /\ filterArg' = dataToFilter
    /\ calls' = calls + 1
    /\ UNCHANGED <<dataToUpdate, jsToSql, jobs, companies>>
    /\ UNCHANGED <<jobSeq, req, locals, nexts, called>>
    /\ args' = <<dataToFilter>>

NextFilter ==
    \/ JobSqlForFilteringCall
    \/ CompanySqlForFilteringCall
    \/ JobFindAllWithFilterCall
    \/ CompanyFindAllWithFilterCall

SpecFilter == InitFilter /\ [][NextFilter]_vars

(************************** the middleware at work *************************)
AuthHeaders ==
    { "Bearer " \o JwtSign("test", SECRET_KEY),
      "bearer " \o JwtSign("admin", SECRET_KEY),
      "Bearer  " \o JwtSign("admin", SECRET_KEY) \o " ",
      JwtSign("test", SECRET_KEY),
      "Bearer " \o JwtSign("test", "wrong"),
      "" }

HeadersInputs ==
    {<< >>, <<Entry("headers", Obj(EmptyObj))>>}
    \cup {<<Entry("headers", Obj(<<Entry("authorization", Str(h))>>))>> : h \in AuthHeaders}

ParamsInputs ==
    {<< >>} \cup {<<Entry("params", Obj(<<Entry("username", Str(u))>>))>> : u \in {"test", "other"}}

UserInputs ==
    { <<Entry("username", Str("test")), Entry("isAdmin", Bool(TRUE))>>,
      <<Entry("username", Str("test")), Entry("isAdmin", Bool(FALSE))>>,
      <<Entry("username", Str("test2")), Entry("isAdmin", Bool(FALSE))>>,
      <<Entry("username", Str("test"))>>,
      <<Entry("username", Str("test2"))>>,
      <<Entry("isAdmin", Bool(TRUE))>>,
      EmptyObj }

LocalsInputs == {EmptyObj} \cup {<<Entry("user", Obj(u))>> : u \in UserInputs}

InitAuth ==
    /\ req \in {h \o q : h \in HeadersInputs, q \in ParamsInputs}
    /\ locals \in LocalsInputs
    /\ nexts = 0
    /\ ret = NoRet
    /\ called = << >>
    /\ queries = << >>
    /\ dataToUpdate = EmptyObj
    /\ jsToSql = EmptyObj
    /\ dataToFilter = Undefined
    /\ filterArg = Undefined
    /\ calls = 0
    /\ jobs = JobsFixture
    /\ companies = CompaniesFixture
    /\ jobSeq = LastJobId
    /\ args = << >>

AuthenticateJWTCall ==
    /\ LET m == authenticateJWT(req, locals)
       IN  /\ ret' = Outcome("authenticateJWT", m.err)
           /\ nexts' = m.nexts
           /\ locals' = m.locals
    /\ args' = << >>
    /\ UNCHANGED <<req, called, queries, dataToUpdate, jsToSql, dataToFilter, filterArg,
                   calls, jobs, companies, jobSeq>>

EnsureIsAdminCall ==
    /\ LET m == ensureIsAdmin(req, locals)
       IN  /\ ret' = Outcome("ensureIsAdmin", m.err)
           /\ nexts' = m.nexts
           /\ locals' = m.locals
    /\ args' = << >>
    /\ UNCHANGED <<req, called, queries, dataToUpdate, jsToSql, dataToFilter, filterArg,
                   calls, jobs, companies, jobSeq>>

EnsureCorrectUserOrIsAdminCall ==
    /\ LET m == ensureCorrectUserOrIsAdmin(req, locals)
       IN  /\ ret' = Outcome("ensureCorrectUserOrIsAdmin", m.err)
           /\ nexts' = m.nexts
           /\ locals' = m.locals
    /\ args' = << >>
    /\ UNCHANGED <<req, called, queries, dataToUpdate, jsToSql, dataToFilter, filterArg,
                   calls, jobs, companies, jobSeq>>

NextAuth == AuthenticateJWTCall \/ EnsureIsAdminCall \/ EnsureCorrectUserOrIsAdminCall

SpecAuth == InitAuth /\ [][NextAuth]_vars

(****************************** the server at work *************************)
NewJob(companyHandle) ==
    <<Entry("title", Str("New")), Entry("salary", Num(500000)), Entry("equity", Str("0.8")),
      Entry("companyHandle", Str(companyHandle))>>

NewJobInputs == {NewJob("c1"), NewJob("nope")}

JobUpdateInputs ==
    { EmptyObj,
      <<Entry("title", Str("New"))>>,
      <<Entry("salary", Null), Entry("equity", Str("0.8"))>> }

JobIds == {Num(1), Num(4), Num(999), Str("nope")}

RouteHeaders ==
    { EmptyObj,
      <<Entry("authorization", Str("Bearer " \o JwtSign("admin", SECRET_KEY)))>>,
      <<Entry("authorization", Str("Bearer " \o JwtSign("test", SECRET_KEY)))>>,
      <<Entry("authorization", Str("Bearer " \o JwtSign("admin", "wrong")))>> }

NewCompany(handle) ==
    <<Entry("handle", Str(handle)), Entry("name", Str("New")),
      Entry("description", Str("New Description")), Entry("numEmployees", Num(10)),
      Entry("logoUrl", Str("http://new.img"))>>

NewCompanyInputs == {NewCompany("new"), NewCompany("c1")}

InvalidBody ==
    <<Entry("title", Num(123)), Entry("salary", Str("200000")), Entry("equity", Str("98.6"))>>

PostBodies == NewJobInputs \cup {InvalidBody}

\* a body with the three fields of a job and an entry that is none of them
BodyWithRandomKey ==
    <<Entry("title", Str("New")), Entry("salary", Num(500000)), Entry("equity", Str("0.8")),
      Entry("randomKey", Str("randomValue"))>>

PatchBodies ==
    { EmptyObj,
      <<Entry("title", Str("New"))>>,
      BodyWithRandomKey,
      InvalidBody }

\* query strings of GET /jobs, parsed
JobQueries ==
    { EmptyObj,
      <<Entry("randomQueryString", Str("ingored"))>>,
      <<Entry("minSalary", Str("200000"))>>,
      <<Entry("minSalary", Str("hello"))>>,
      <<Entry("hasEquity", Str("true"))>>,
      <<Entry("hasEquity", Str("hello"))>> }

\* query strings of GET /companies, parsed
CompanyQueries ==
    { EmptyObj,
      <<Entry("minEmployees", Str("1")), Entry("maxEmployees", Str("2"))>>,
      <<Entry("minEmployees", Str("9")), Entry("maxEmployees", Str("10"))>>,
      <<Entry("minEmployees", Str("100")), Entry("maxEmployees", Str("20"))>>,
      <<Entry("minEmployees", Str("2")), Entry("maxEmployees", Str("1"))>> }

RouteIds == {"1", "999"}

Init ==
    /\ jobs = JobsFixture
    /\ companies = CompaniesFixture
    /\ jobSeq = LastJobId
    /\ req = EmptyObj
    /\ locals = EmptyObj
    /\ nexts = 0
    /\ called = << >>
    /\ args = << >>
    /\ ret = NoRet
    /\ queries = << >>
    /\ dataToUpdate = EmptyObj
    /\ jsToSql = EmptyObj
    /\ dataToFilter = Undefined
    /\ filterArg = Undefined
    /\ calls = 0

JobCreateCall ==
    /\ jobSeq < LastJobId + MaxCreates
    /\ \E data \in NewJobInputs :
          \E r \in {JobCreate(data, jobs, companies, jobSeq)} :
              /\ ret' = r.ret
              /\ queries' = r.queries
              /\ jobs' = r.table
              /\ jobSeq' = r.seq
              /\ args' = <<Obj(data)>>
    /\ req' = EmptyObj /\ locals' = EmptyObj /\ nexts' = 0 /\ called' = << >>
    /\ UNCHANGED <<dataToUpdate, jsToSql, dataToFilter, filterArg, calls, companies>>

JobGetCall ==
    /\ \E id \in JobIds :
          \E r \in {JobGet(id, jobs)} :
              /\ ret' = r.ret
              /\ queries' = r.queries
              /\ args' = <<id>>
    /\ req' = EmptyObj /\ locals' = EmptyObj /\ nexts' = 0 /\ called' = << >>
    /\ UNCHANGED <<jobs, jobSeq>>
    /\ UNCHANGED <<dataToUpdate, jsToSql, dataToFilter, filterArg, calls, companies>>

JobUpdateDataCall ==
    /\ \E id \in JobIds, data \in JobUpdateInputs :
          \E r \in {JobUpdate(id, data, jobs)} :
              /\ ret' = r.ret
              /\ queries' = r.queries
              /\ jobs' = r.table
              /\ args' = <<id, Obj(data)>>
    /\ req' = EmptyObj /\ locals' = EmptyObj /\ nexts' = 0 /\ called' = << >>
    /\ UNCHANGED jobSeq
    /\ UNCHANGED <<dataToUpdate, jsToSql, dataToFilter, filterArg, calls, companies>>

JobRemoveCall ==
    /\ \E id \in JobIds :
          \E r \in {JobRemove(id, jobs)} :
              /\ ret' = r.ret
              /\ queries' = r.queries
              /\ jobs' = r.table
              /\ args' = <<id>>
    /\ req' = EmptyObj /\ locals' = EmptyObj /\ nexts' = 0 /\ called' = << >>
    /\ UNCHANGED jobSeq
    /\ UNCHANGED <<dataToUpdate, jsToSql, dataToFilter, filterArg, calls, companies>>

CompanyCreateCall ==
    /\ \E data \in NewCompanyInputs :
          \E r \in {CompanyCreate(data, companies)} :
              /\ ret' = r.ret
              /\ queries' = r.queries
              /\ companies' = r.table
              /\ args' = <<Obj(data)>>
    /\ req' = EmptyObj /\ locals' = EmptyObj /\ nexts' = 0 /\ called' = << >>
    /\ UNCHANGED <<jobs, jobSeq>>
    /\ UNCHANGED <<dataToUpdate, jsToSql, dataToFilter, filterArg, calls>>

\* the state a route leaves: its request, its response, res.locals, the store
Served(rq, r) ==
    /\ req' = rq
    /\ ret' = r.ret
    /\ locals' = r.locals
    /\ nexts' = r.nexts
    /\ called' = r.called
    /\ queries' = r.queries
    /\ jobs' = r.table
    /\ jobSeq' = r.seq
    /\ args' = << >>
    /\ UNCHANGED <<dataToUpdate, jsToSql, dataToFilter, filterArg, calls, companies>>

\* the state a GET leaves: its request and its response; the store is only read
Answered(rq, r) ==
    /\ req' = rq
    /\ ret' = r.ret
    /\ locals' = r.locals
    /\ nexts' = r.nexts
    /\ called' = r.called
    /\ queries' = r.queries
    /\ args' = << >>
    /\ UNCHANGED <<jobs, jobSeq, companies>>
    /\ UNCHANGED <<dataToUpdate, jsToSql, dataToFilter, filterArg, calls>>

GetJobsRequest ==
    \E query \in JobQueries :
        \E rq \in {GetRequest("/jobs", query)} :
            \E r \in {GetJobs(rq, jobs)} : Answered(rq, r)

GetCompaniesRequest ==
    \E query \in CompanyQueries :
        \E rq \in {GetRequest("/companies", query)} :
            \E r \in {GetCompanies(rq, companies)} : Answered(rq, r)

PostJobsRequest ==
    /\ jobSeq < LastJobId + MaxCreates
    /\ \E h \in RouteHeaders, body \in PostBodies :
          \E rq \in {Request("POST", "/jobs", h, EmptyObj, body)} :
              \E r \in {PostJobs(rq, jobs, companies, jobSeq)} : Served(rq, r)

PatchJobRequest ==
    \E h \in RouteHeaders, id \in RouteIds, body \in PatchBodies :
        \E rq \in {Request("PATCH", "/jobs/" \o id, h, <<Entry("id", Str(id))>>, body)} :
            \E r \in {PatchJob(rq, jobs, jobSeq)} : Served(rq, r)

DeleteJobRequest ==
    \E h \in RouteHeaders, id \in RouteIds :
        \E rq \in {Request("DELETE", "/jobs/" \o id, h, <<Entry("id", Str(id))>>, EmptyObj)} :
            \E r \in {DeleteJob(rq, jobs, jobSeq)} : Served(rq, r)

Next ==
    \/ JobCreateCall
    \/ JobGetCall
    \/ JobUpdateDataCall
    \/ JobRemoveCall
    \/ CompanyCreateCall
    \/ PostJobsRequest
    \/ PatchJobRequest
    \/ DeleteJobRequest
    \/ GetJobsRequest
    \/ GetCompaniesRequest

Spec == Init /\ [][Next]_vars

(***************************** properties **********************************)
\* <<1, 2, ..., n>>
UpTo(n) == [i \in 1..n |-> i]

\* C1: for a non-empty dataToUpdate and any jsToSql, sqlForPartialUpdate
\* returns a setCols whose placeholders are $1..$n in key order, one per key
\* and one per fragment, and values[i] is the value of the i-th key.
C1_PlaceholdersBindValues ==
    (ret.op = "sqlForPartialUpdate" /\ Len(dataToUpdate) > 0) =>
        LET n == Len(dataToUpdate)
            frags == Split(ret.text, ", ")
        IN  /\ ret.err = "none"
            /\ Placeholders(ret.text) = UpTo(n)
            /\ Len(frags) = n
            /\ \A i \in 1..n : Placeholders(frags[i]) = <<i>>
            /\ Len(ret.values) = n
            /\ \A i \in 1..n : ret.values[i] = dataToUpdate[i].v

C1_Witness ==
    /\ ret.op = "sqlForPartialUpdate"
    /\ ret.err = "none"
    /\ Len(dataToUpdate) >= 2
    /\ jsToSql # EmptyObj
    /\ \E i \in 1..Len(dataToUpdate) : dataToUpdate[i].v = Null

\* C2: with an empty dataToUpdate, sqlForPartialUpdate raises BadRequestError
\* whatever jsToSql is, and Job.update and Company.update raise it too, send
\* no statement to the store and leave every stored row as it was.
C2_EmptyDataRejected ==
    [][(dataToUpdate = EmptyObj
            /\ ret'.op \in {"sqlForPartialUpdate", "Job.update", "Company.update"})
        => /\ ret'.err = "BadRequestError"
           /\ queries' = << >>
           /\ jobs' = jobs
           /\ companies' = companies]_vars

C2_Witness ==
    /\ dataToUpdate = EmptyObj
    /\ ret.op = "Job.update"
    /\ ret.err = "BadRequestError"
    /\ queries = << >>
    /\ jobs = JobsFixture

\* C3: the i-th fragment of setCols is the double-quoted column name followed
\* by =$i, the column name being jsToSql[key] when jsToSql has an entry for
\* the key and the key itself otherwise; fragments come in key order joined
\* by ", ".
C3_ExpectedColumn(key) == IF ObjHas(jsToSql, key) THEN ObjGet(jsToSql, key).s ELSE key

C3_SetColsFragments ==
    (ret.op = "sqlForPartialUpdate" /\ ret.err = "none") =>
        LET n == Len(dataToUpdate)
        IN  /\ Len(ret.text) = 6 * n - 1
            /\ \A i \in 1..n :
                  SubSeq(ret.text, 6 * i - 5, 6 * i - 1) =
                      <<"\"", C3_ExpectedColumn(dataToUpdate[i].k), "\"", "=", Ph(i)>>
            /\ \A i \in 1..(n - 1) : ret.text[6 * i] = ", "
            /\ (/\ ObjKeys(dataToUpdate) = <<"firstName", "age">>
                /\ ObjKeys(jsToSql) = <<"firstName", "age">>)
               => Render(ret.text) = "\"first_name\"=$1, \"age\"=$2"

C3_Witness ==
    /\ ret.op = "sqlForPartialUpdate"
    /\ ret.err = "none"
    /\ \E i, j \in 1..Len(dataToUpdate) :
          /\ i < j
          /\ ~ObjHas(jsToSql, dataToUpdate[i].k)
          /\ ObjHas(jsToSql, dataToUpdate[j].k)
          /\ ObjGet(jsToSql, dataToUpdate[j].k).s # dataToUpdate[j].k

JobFilterOps == {"Job.sqlForFiltering", "Job.findAllWithFilter"}
CompanyFilterOps == {"Company.sqlForFiltering", "Company.findAllWithFilter"}
JobFilterKeys == {"titleLike", "minSalary", "hasEquity"}
CompanyFilterKeys == {"nameLike", "minEmployees", "maxEmployees"}
EquityFragment == "equity IS NOT NULL AND equity != 0"
HasToken(text, tok) == \E i \in 1..Len(text) : text[i] = tok
ArgKeys == IF filterArg.t = "obj" THEN {filterArg.o[i].k : i \in 1..Len(filterArg.o)} ELSE {}
ArgGet(k) == IF filterArg.t = "obj" THEN ObjGet(filterArg.o, k) ELSE Undefined

\* C4: Job.sqlForFiltering and Company.sqlForFiltering return exactly
\* {whereClause: "", values: []}, without an error, when the filter is
\* undefined and when it is an object with no keys.
C4_NoFilterIsEmptyClause ==
    (/\ ret.op \in {"Job.sqlForFiltering", "Company.sqlForFiltering"}
     /\ (filterArg = Undefined \/ filterArg = Obj(EmptyObj)))
    => /\ ret.err = "none"
       /\ Render(ret.text) = ""
       /\ ret.values = << >>

C4_Witness ==
    /\ ret.op = "Company.sqlForFiltering"
    /\ filterArg = Undefined
    /\ ret.err = "none"
    /\ calls = 1

\* C5: when hasEquity is true, the clause of Job.sqlForFiltering contains the
\* fragment 'equity IS NOT NULL AND equity != 0' and values has no entry for
\* hasEquity: it holds the values of the other keys in key order, the
\* titleLike value wrapped as %value% (for a filter of the recognized keys:
\* only the wrapped titleLike value and the minSalary value).
C5_Others == IF filterArg.t = "obj" THEN SelectSeq(filterArg.o, LAMBDA e : e.k # "hasEquity") ELSE << >>

C6_ContiguousPlaceholders ==
    (/\ ret.op = "Job.sqlForFiltering"
     /\ ArgKeys \subseteq JobFilterKeys
     /\ ArgGet("hasEquity").t \in {"bool", "undefined"}) =>
        Placeholders(ret.text) = UpTo(Len(ret.values))

\* C7: for every input, unrecognized keys included, the clause returned by
\* Job.sqlForFiltering and Company.sqlForFiltering has as many placeholders
\* as the returned values list has entries.
C7_PlaceholderCountIsValueCount ==
    ret.op \in {"Job.sqlForFiltering", "Company.sqlForFiltering"} =>
        Len(Placeholders(ret.text)) = Len(ret.values)

\* C8: a hasEquity of false makes Job.sqlForFiltering emit no fragment and
\* bind nothing for it: {hasEquity: false} alone gives {"", []}, with other
\* keys the result is that of the filter without hasEquity, and
\* Job.findAllWithFilter({hasEquity: false}) returns the rows of
\* Job.findAllWithFilter({}).
C8_WithoutEquity == Obj(ObjDelete(filterArg.o, "hasEquity"))

C9_UnrecognizedKeyRejected ==
    /\ (ret.op = "Job.sqlForFiltering" /\ ~(ArgKeys \subseteq JobFilterKeys))
          => ret.err = "BadRequestError"
    /\ (ret.op = "Company.sqlForFiltering" /\ ~(ArgKeys \subseteq CompanyFilterKeys))
          => ret.err = "BadRequestError"

\* C10: Job.sqlForFiltering and Company.sqlForFiltering leave the caller's
\* filter object with the keys and values it had before the call.
C10_FilterUnchanged ==
    ret.op \in {"Job.sqlForFiltering", "Company.sqlForFiltering"} =>
        dataToFilter = filterArg

\* C11: a second call of Job.sqlForFiltering (or Company.sqlForFiltering) on
\* the filter object just passed to a first call returns the clause and the
\* values the first call returned; the partial-match value bound by the
\* second call is again %raw%.
C11_SecondCallSameResult ==
    [][(/\ calls = 1 /\ calls' = 2
        /\ ret.op \in {"Job.sqlForFiltering", "Company.sqlForFiltering"}
        /\ ret'.op = ret.op)
       => /\ ret'.err = ret.err
          /\ ret'.text = ret.text
          /\ ret'.values = ret.values]_vars

\* C12: for every input of Job.sqlForFiltering the clause has the WHERE
\* keyword exactly when values is non-empty or the equity fragment was
\* emitted, and the clause is never the keyword alone.
C12_WhereIffSomethingFiltered ==
    ret.op = "Job.sqlForFiltering" =>
        /\ HasToken(ret.text, "\nWHERE ")
              <=> (Len(ret.values) > 0 \/ HasToken(ret.text, EquityFragment))
        /\ Render(ret.text) # "\nWHERE "

\* C13: for a non-empty filter of the company keys in any order,
\* Company.sqlForFiltering returns the WHERE keyword followed by one
\* comparison per key joined by " AND ": name ILIKE $i, num_employees >= $i,
\* num_employees <= $i with i the position of the key; values[i] is the value
\* of the i-th key, wrapped as %value% for nameLike.
C13_Lhs(key) ==
    CASE key = "nameLike" -> "name ILIKE "
      [] key = "minEmployees" -> "num_employees >= "
      [] key = "maxEmployees" -> "num_employees <= "

C13_CompanyClause ==
    (/\ ret.op = "Company.sqlForFiltering"
     /\ ArgKeys \subseteq CompanyFilterKeys
     /\ ArgKeys # {}) =>
        LET n == Len(filterArg.o)
        IN  /\ ret.err = "none"
            /\ Len(ret.text) = 3 * n
            /\ ret.text[1] = "\nWHERE "
            /\ \A i \in 1..n :
                  /\ ret.text[3 * i - 1] = C13_Lhs(filterArg.o[i].k)
                  /\ ret.text[3 * i] = Ph(i)
            /\ \A i \in 1..(n - 1) : ret.text[3 * i + 1] = " AND "
            /\ Len(ret.values) = n
            /\ \A i \in 1..n :
                  ret.values[i] = IF filterArg.o[i].k = "nameLike"
                                  THEN Str("%" \o filterArg.o[i].v.s \o "%")
                                  ELSE filterArg.o[i].v
            /\ ObjKeys(filterArg.o) = <<"nameLike", "minEmployees", "maxEmployees">>
               => Render(ret.text) = "\nWHERE name ILIKE $1 AND num_employees >= $2 AND "
                                        \o "num_employees <= $3"

C13_Witness ==
    /\ ret.op = "Company.sqlForFiltering"
    /\ calls = 1
    /\ filterArg = Obj(<<Entry("maxEmployees", Num(400)), Entry("nameLike", Str("net")),
                         Entry("minEmployees", Num(2))>>)
    /\ ret.values = <<Num(400), Str("%net%"), Num(2)>>

C14_User == ObjGet(locals, "user")

\* C14: ensureIsAdmin calls next only when res.locals.user exists, has a
\* username and has isAdmin true; in every other case, an absent isAdmin
\* included, it raises UnauthorizedError and does not call next.
C14_OnlyAdminPasses ==
    ret.op = "ensureIsAdmin" =>
        IF /\ C14_User.t = "obj"
           /\ Truthy(OptProp(C14_User, "username"))
           /\ IsTrue(OptProp(C14_User, "isAdmin"))
        THEN ret.err = "none" /\ nexts = 1
        ELSE ret.err = "UnauthorizedError" /\ nexts = 0

C15_ParamsUsername == OptProp(ObjGet(req, "params"), "username")

\* C15: ensureCorrectUserOrIsAdmin calls next only when res.locals.user has a
\* username and that username is req.params.username or isAdmin is true;
\* otherwise, an absent isAdmin included, it raises UnauthorizedError.
C15_OnlyNamedUserOrAdminPasses ==
    ret.op = "ensureCorrectUserOrIsAdmin" =>
        IF /\ C14_User.t = "obj"
           /\ Truthy(OptProp(C14_User, "username"))
           /\ \/ OptProp(C14_User, "username") = C15_ParamsUsername
              \/ IsTrue(OptProp(C14_User, "isAdmin"))
        THEN ret.err = "none" /\ nexts = 1
        ELSE ret.err = "UnauthorizedError" /\ nexts = 0

\* the authorization header of the request, undefined when there is none
C16_Header == OptProp(ObjGet(req, "headers"), "authorization")

\* header strings that carry a token signed with SECRET_KEY
C16_ValidHeaders ==
    {pre \o JwtSign(n, SECRET_KEY) \o post :
        n \in DOMAIN TokenPayloads, pre \in {"", "Bearer ", "bearer ", "Bearer  "},
        post \in {"", " "}}

C16_Verifies == C16_Header.t = "str" /\ C16_Header.s \in C16_ValidHeaders

\* C16: authenticateJWT never raises and calls next exactly once; it sets
\* res.locals.user to the token's payload when the request has an
\* authorization header whose token verifies, and leaves res.locals as it
\* was when the header is missing or the token is invalid.
C16_AuthenticateNeverRaises ==
    [][ret'.op = "authenticateJWT" =>
          /\ ret'.err = "none"
          /\ nexts' = 1
          /\ IF C16_Verifies
             THEN /\ OptProp(ObjGet(locals', "user"), "username").t = "str"
                  /\ \E n \in DOMAIN TokenPayloads :
                        /\ C16_Header.s \in {pre \o JwtSign(n, SECRET_KEY) \o post :
                                pre \in {"", "Bearer ", "bearer ", "Bearer  "},
                                post \in {"", " "}}
                        /\ \A i \in 1..Len(TokenPayloads[n]) :
                              OptProp(ObjGet(locals', "user"), TokenPayloads[n][i].k)
                                  = TokenPayloads[n][i].v
             ELSE locals' = locals]_vars

C16_Witness ==
    /\ ret.op = "authenticateJWT"
    /\ C16_Header = Str("Bearer " \o JwtSign("test", "wrong"))
    /\ locals = EmptyObj
    /\ nexts = 1

C17_Routes == {"POST /jobs", "PATCH /jobs/:id", "DELETE /jobs/:id"}

\* authorization headers that carry a valid token of an admin
C17_AdminHeaders ==
    {Str(pre \o JwtSign(n, SECRET_KEY)) :
        n \in {m \in DOMAIN TokenPayloads : IsTrue(ObjGet(TokenPayloads[m], "isAdmin"))},
        pre \in {"", "Bearer ", "bearer "}}

\* the caller of request rq is anonymous or logged in without being an admin
C17_NotAdmin(rq) == OptProp(ObjGet(rq, "headers"), "authorization") \notin C17_AdminHeaders

\* C17: a POST /jobs, PATCH /jobs/:id or DELETE /jobs/:id request of an
\* anonymous caller or of a logged-in non-admin is answered with
\* UnauthorizedError, calls no model method, sends no statement and leaves
\* the stored jobs as they were.
C17_NonAdminChangesNothing ==
    [][(ret'.op \in C17_Routes /\ C17_NotAdmin(req'))
       => /\ ret'.err = "UnauthorizedError"
          /\ called' = << >>
          /\ queries' = << >>
          /\ jobs' = jobs
          /\ jobSeq' = jobSeq]_vars

C17_Witness ==
    /\ ret.op = "DELETE /jobs/:id"
    /\ ret.err = "UnauthorizedError"
    /\ IsFalse(OptProp(ObjGet(locals, "user"), "isAdmin"))
    /\ ObjGet(ObjGet(req, "params").o, "id") = Str("1")
    /\ \E r \in jobs : r.id = Num(1) /\ r.title = Str("New")

C19_NoJob(id) == PgIsInt(id) /\ \A r \in jobs : r.id.n # PgInt(id)

C20_Fields == {"title", "salary", "equity"}

\* C20: a Job.update(id, data) that returns, data having keys among title,
\* salary and equity, leaves on the job with that id each field named in
\* data at the value given (null included), keeps its id, companyHandle and
\* unnamed fields, leaves every other job as it was, and returns the job as
\* it is stored after the update.
C20_UpdateChangesNamedFields ==
    [][(/\ ret'.op = "Job.update"
        /\ ret'.err = "none"
        /\ \A i \in 1..Len(args'[2].o) : args'[2].o[i].k \in C20_Fields)
       => LET id == args'[1]
              data == args'[2].o
              new == ret'.rows[1]
          IN  \E old \in jobs :
                 /\ old.id.n = PgInt(id)
                 /\ new.id = old.id
                 /\ new.companyHandle = old.companyHandle
                 /\ \A f \in C20_Fields :
                       new[f] = IF ObjHas(data, f) THEN ObjGet(data, f) ELSE old[f]
                 /\ new \in jobs'
                 /\ jobs' \ {new} = jobs \ {old}
                 /\ Cardinality(jobs') = Cardinality(jobs)]_vars

C20_Witness ==
    /\ ret.op = "Job.update"
    /\ ret.err = "none"
    /\ args = <<Num(4), Obj(<<Entry("salary", Null), Entry("equity", Str("0.8"))>>)>>
    /\ ret.rows[1].salary = Null
    /\ ret.rows[1].title = Str("New")
    /\ ret.rows[1] \in jobs

\* C21: Company.create with a handle that a stored company has raises
\* BadRequestError and leaves the stored companies as they were; after every
\* Company.create no two stored companies share a handle.
C21_DuplicateHandleRejected ==
    [][ret'.op = "Company.create"
       => /\ (\E c \in companies : c.handle = ObjGet(args'[1].o, "handle"))
                => (ret'.err = "BadRequestError" /\ companies' = companies)
          /\ \A a, b \in companies' : a.handle = b.handle => a = b]_vars

C21_Witness ==
    /\ ret.op = "Company.create"
    /\ ret.err = "BadRequestError"
    /\ ObjGet(args[1].o, "handle") = Str("new")
    /\ Cardinality(companies) = 3
    /\ Len(queries) = 1

\* the ids the sequence has handed out that no stored job has: the removed ones
C26_Removed == {i \in 1..jobSeq : \A r \in jobs : r.id # Num(i)}

\* a direct call of Job.get, Job.update or Job.remove on a removed id ends the step
C26_CallOnRemoved ==
    /\ ret'.op \in {"Job.get", "Job.update", "Job.remove"}
    /\ PgIsInt(args'[1])
    /\ PgInt(args'[1]) \in C26_Removed

C25_IdentifierPlaceholderLast ==
    (ret.op \in {"Job.update", "Company.update"} /\ args[2].o # EmptyObj)
    => LET n == Len(ObjKeys(args[2].o))
           q == queries[1]
       IN  /\ Len(queries) = 1
           /\ Placeholders(q.set) = [i \in 1..n |-> i]
           /\ q.keyPh = Ph(n + 1)
           /\ \A i \in 1..Len(q.set) : IsPh(q.set[i]) => q.set[i] # q.keyPh
           /\ Len(q.params) = n + 1
           /\ q.params[n + 1] = args[1]
           /\ SubSeq(q.params, 1, n) = ObjValues(args[2].o)

C25_Witness ==
    /\ ret.op = "Company.update"
    /\ ret.err = "none"
    /\ Len(ObjKeys(args[2].o)) = 2
    /\ queries[1].keyPh = Ph(3)
    /\ queries[1].params[3] = Str("c1")

\* the parsed query string of the request answered last
ReqQuery == ObjGet(req, "query").o

\* C22: GET /jobs with the one query-string key randomQueryString, which is no
\* filter, is answered without an error by a query with no filter condition
\* and lists every stored job, as GET /jobs with no query string does.
C22_UnknownQueryKeyIgnored ==
    (ret.op = "GET /jobs" /\ ObjKeys(ReqQuery) = <<"randomQueryString">>)
    => /\ ret.err = "none"
       /\ called = <<"Job.findAllWithFilter">>
       /\ queries[1].where = << >>
       /\ queries[1].params = << >>
       /\ ret.rows = JobFindAllWithFilter(Undefined, jobs).ret.rows

\* C23: PATCH /jobs/:id of an admin for a stored job, the body carrying
\* title, salary, equity and randomKey, succeeds; the SET clause has the three
\* assignments of title, salary and equity and the returned job carries the
\* three new values.
C23_RandomBodyEntryIgnored ==
    (/\ ret.op = "PATCH /jobs/:id"
     /\ ObjGet(req, "body").o = BodyWithRandomKey
     /\ ObjGet(ObjGet(req, "headers").o, "authorization") \in C17_AdminHeaders
     /\ ObjGet(ObjGet(req, "params").o, "id") = Str("1"))
    => /\ ret.err = "none"
       /\ Placeholders(queries[1].set) = <<1, 2, 3>>
       /\ Len(queries[1].params) = 4
       /\ \A f \in C20_Fields : ret.rows[1][f] = ObjGet(BodyWithRandomKey, f)

\* C24: GET /jobs with a hasEquity value that spells no boolean is answered
\* with BadRequestError and Job.findAllWithFilter is not called.
C24_NonBooleanHasEquityRejected ==
    (/\ ret.op = "GET /jobs"
     /\ ObjHas(ReqQuery, "hasEquity")
     /\ ObjGet(ReqQuery, "hasEquity") \notin {Str("true"), Str("false")})
    => /\ ret.err = "BadRequestError"
       /\ called = << >>
       /\ queries = << >>

\* C27: GET /jobs with hasEquity=true that passes the validation makes
\* Job.findAllWithFilter send a query whose where clause has the fragment
\* 'equity IS NOT NULL AND equity != 0'.
C27_HasEquityTrueFilters ==
    (/\ ret.op = "GET /jobs"
     /\ ObjGet(ReqQuery, "hasEquity") = Str("true")
     /\ ret.err # "BadRequestError")
    => /\ called = <<"Job.findAllWithFilter">>
       /\ HasToken(queries[1].where, EquityFragment)

\* C28: GET /companies with minEmployees and maxEmployees both given, each
\* spelling an integer, is answered with BadRequestError exactly when
\* minEmployees is the greater number, and a rejected request does not call
\* Company.findAllWithFilter.
C28_RejectedIffMinGreater ==
    (/\ ret.op = "GET /companies"
     /\ ObjHas(ReqQuery, "minEmployees")
     /\ ObjHas(ReqQuery, "maxEmployees"))
    => /\ ret.err = "BadRequestError"
            <=> PgInt(ObjGet(ReqQuery, "minEmployees")) > PgInt(ObjGet(ReqQuery, "maxEmployees"))
       /\ ret.err = "BadRequestError" => called = << >>

====
